---- MODULE Spec2Model ----
(***************************************************************************)
(* A model of app.py, the Streamlit dashboard over the TV-show table:      *)
(* the cached loader load_data, the two sidebar multiselects, the          *)
(* age-group / genre filter that builds df_filt, and the metrics and the   *)
(* seven views computed from df_filt on every run of the script.           *)
(*                                                                         *)
(* pandas values are modelled by what the library does with them: a cell   *)
(* of a list column is a tagged value (raw text, list, str, NaN), a frame  *)
(* is a set of column names with a sequence of rows, and a statement that  *)
(* raises stops the run of the script at that statement.                   *)
(***************************************************************************)
EXTENDS Integers, Sequences, FiniteSets, TLC

VARIABLES
    file,                 \* the backing CSV file: [has_age_group, rows]
    cache,                \* st.cache_data's entry for load_data: [present, table]
    reads,                \* how often pd.read_csv has read the backing file
    started,              \* whether the session has run the script at least once
    df,                   \* the frame the last run got from load_data()
    selected_age_groups,  \* value of the "Select Age Groups" multiselect
    selected_genres,      \* value of the "Select Genres" multiselect
    df_filt,              \* the filtered view the last run built
    out,                  \* the metrics and views the last run produced
    err                   \* where the last run stopped on an exception ("none" if it did not)

vars == <<file, cache, reads, started, df, selected_age_groups, selected_genres, df_filt, out, err>>

----------------------------------------------------------------------------
(* Bounds of the model *)

MaxRows == 2        \* rows of the backing file in Spec
MaxFileRows == 2    \* rows of the backing file in SpecLoad
MaxCutRows == 1     \* rows of the backing file in SpecCut
MaxTopRows == 2     \* rows of the backing file in SpecTop
MinAge == 11        \* smallest user_age drawn in SpecCut
MaxAge == 72        \* largest user_age drawn in SpecCut
NumGenres == 11     \* number of distinct genres drawn in SpecTop
MaxReads == 3       \* cap of the reads counter

----------------------------------------------------------------------------
(* Values *)

\* pandas' missing number (NaN / NaT's year); every real number of the model is >= 0
NaN == -1

\* a missing label (NaN in a column of strings or categories)
NaNLabel == "NaN"

Min(a, b) == IF a <= b THEN a ELSE b

\* tokens of the text of a cell, as Python's tokenizer sees it
LBR == [t |-> "[", v |-> ""]
RBR == [t |-> "]", v |-> ""]
COMMA == [t |-> ",", v |-> ""]
STR(s) == [t |-> "str", v |-> s]     \* a quoted string literal 's'
NAME(s) == [t |-> "name", v |-> s]   \* a bare word s

\* a cell of a list column: raw text (a str holding tokens), a list of strings,
\* a str, or NaN (an empty CSV field, a float)
TextCell(toks) == [kind |-> "text", toks |-> toks, items |-> <<>>]
ListCell(items) == [kind |-> "list", toks |-> <<>>, items |-> items]
StrCell(s) == [kind |-> "str", toks |-> <<>>, items |-> <<s>>]
NaNCell == [kind |-> "nan", toks |-> <<>>, items |-> <<>>]

\* isinstance(x, str): raw text from the file and a decoded str are both str
IsStr(x) == x.kind \in {"text", "str"}

\* isinstance(x, list)
IsList(x) == x.kind = "list"

\* the text of a date field: "y-m-d", "y-m", "y" as its numeric parts, <<>> for
\* text that holds no date; NaN for an empty field
DateText(parts) == [kind |-> "text", parts |-> parts]
NaNDate == [kind |-> "nan", parts |-> <<>>]

\* a datetime64 value: NaT or a calendar date
NaT == [nat |-> TRUE, y |-> 0, m |-> 0, d |-> 0]
Date(y, m, d) == [nat |-> FALSE, y |-> y, m |-> m, d |-> d]

\* a frame: its column labels and its rows in index order
Frame(columns, rows) == [columns |-> columns, rows |-> rows]
EmptyFrame == Frame({}, <<>>)

\* F(v), with v evaluated once
Let(v, F(_)) == CHOOSE r \in {F(x) : x \in {v}} : TRUE

Range(s) == {s[i] : i \in 1..Len(s)}

\* the elements s[i], i in the set keep, in order
SelectSeqBy(s, keep) ==
    LET F[k \in 0..Len(s)] ==
            IF k = 0 THEN <<>>
            ELSE IF k \in keep THEN Append(F[k - 1], s[k]) ELSE F[k - 1]
    IN F[Len(s)]

----------------------------------------------------------------------------
(* load_data: lines 27-55 *)

RECURSIVE ParseItems(_, _, _)
\* the elements of a list display from token i on, acc the elements so far:
\* 'str' then "," or "]"; a comma may precede the closing bracket
ParseItems(toks, i, acc) ==
    IF i > Len(toks) THEN [ok |-> FALSE, val |-> NaNCell]
    ELSE IF toks[i].t = "]"
         THEN IF i = Len(toks) THEN [ok |-> TRUE, val |-> ListCell(acc)]
              ELSE [ok |-> FALSE, val |-> NaNCell]
    ELSE IF toks[i].t # "str" THEN [ok |-> FALSE, val |-> NaNCell]
    ELSE IF i + 1 > Len(toks) THEN [ok |-> FALSE, val |-> NaNCell]
    ELSE IF toks[i + 1].t = "]"
         THEN IF i + 1 = Len(toks)
              THEN [ok |-> TRUE, val |-> ListCell(Append(acc, toks[i].v))]
              ELSE [ok |-> FALSE, val |-> NaNCell]
    ELSE IF toks[i + 1].t = ","
         THEN ParseItems(toks, i + 2, Append(acc, toks[i].v))
    ELSE [ok |-> FALSE, val |-> NaNCell]

\* ast.literal_eval on the text of a cell: the value of a string literal or of a
\* list display of string literals; anything else raises (ok = FALSE)
literal_eval(toks) ==
    IF Len(toks) = 0 THEN [ok |-> FALSE, val |-> NaNCell]
    ELSE IF Len(toks) = 1 /\ toks[1].t = "str"
         THEN [ok |-> TRUE, val |-> StrCell(toks[1].v)]
    ELSE IF toks[1].t = "[" THEN ParseItems(toks, 2, <<>>)
    ELSE [ok |-> FALSE, val |-> NaNCell]

\* parse_list_cell without the decoding: the text is kept as it is (a faulty variant)
parse_list_cell_identity(x) == [ok |-> TRUE, val |-> x]

\* lambda x: ast.literal_eval(x) if isinstance(x, str) else x
parse_list_cell(x) ==
    IF IsStr(x) THEN literal_eval(x.toks) ELSE [ok |-> TRUE, val |-> x]

DaysInMonth(y, m) ==
    IF m \in {4, 6, 9, 11} THEN 30
    ELSE IF m = 2
         THEN (IF (y % 4 = 0 /\ y % 100 # 0) \/ y % 400 = 0 THEN 29 ELSE 28)
    ELSE 31

\* pd.to_datetime(..., errors="coerce") on one field: NaT for an empty field and
\* for text that is no calendar date
to_datetime(x) ==
    IF x.kind = "nan" \/ Len(x.parts) = 0 \/ Len(x.parts) > 3 THEN NaT
    ELSE LET y == x.parts[1]
             m == IF Len(x.parts) >= 2 THEN x.parts[2] ELSE 1
             d == IF Len(x.parts) = 3 THEN x.parts[3] ELSE 1
         IN IF m \in 1..12 /\ d >= 1 /\ d <= DaysInMonth(y, m)
            THEN Date(y, m, d) ELSE NaT

\* .dt.year
dt_year(t) == IF t.nat THEN NaN ELSE t.y

\* (df["year"] // 10) * 10, NaN staying NaN
decade_of(year) == IF year = NaN THEN NaN ELSE (year \div 10) * 10

bins == <<12, 17, 24, 34, 44, 54, 70>>

\* the labels of the source, its en dashes written as hyphens
labels == <<"Teen (13-17)", "Young Adult (18-24)", "Adult (25-34)",
            "Mid Adult (35-44)", "Older Adult (45-54)", "Senior (55-70)">>

\* cut with right=False: bins closed on the left, [12,17), [17,24), ... (a faulty variant)
cut_left_closed(age) ==
    IF age # NaN /\ \E i \in 1..(Len(bins) - 1) : bins[i] <= age /\ age < bins[i + 1]
    THEN labels[CHOOSE i \in 1..(Len(bins) - 1) : bins[i] <= age /\ age < bins[i + 1]]
    ELSE NaNLabel

\* pd.cut(user_age, bins, labels) on one value: bins closed on the right
cut(age) ==
    IF age # NaN /\ \E i \in 1..(Len(bins) - 1) : bins[i] < age /\ age <= bins[i + 1]
    THEN labels[CHOOSE i \in 1..(Len(bins) - 1) : bins[i] < age /\ age <= bins[i + 1]]
    ELSE NaNLabel

Columns == {"genre_names", "origin_country", "first_air_date", "year", "decade",
            "user_age", "age_group", "popularity", "vote_average", "vote_count"}

\* one row through lines 32-53; g and c are the decoded list cells
load_row(raw, g, c, has_age_group) ==
    LET t == to_datetime(raw.first_air_date)
    IN [genre_names |-> g,
        origin_country |-> c,
        first_air_date |-> t,
        year |-> dt_year(t),
        decade |-> decade_of(dt_year(t)),
        user_age |-> raw.user_age,
        age_group |-> IF has_age_group THEN raw.age_group ELSE cut(raw.user_age),
        popularity |-> raw.popularity,
        vote_average |-> raw.vote_average,
        vote_count |-> raw.vote_count]

\* the body of load_data on the file f: raised when a list cell does not parse
\* (apply lets the exception of ast.literal_eval through), else the frame
load_data(f) ==
    LET n == Len(f.rows)
        g == [i \in 1..n |-> parse_list_cell(f.rows[i].genre_names)]
        c == [i \in 1..n |-> parse_list_cell(f.rows[i].origin_country)]
    IN IF \E i \in 1..n : ~g[i].ok \/ ~c[i].ok
       THEN [raised |-> TRUE, table |-> EmptyFrame]
       ELSE [raised |-> FALSE,
             table |-> Frame(Columns,
                             [i \in 1..n |->
                                 load_row(f.rows[i], g[i].val, c[i].val, f.has_age_group)])]

\* load_data without @st.cache_data: no call finds a memoized table (a faulty variant)
cache_hit_never(c) == FALSE

\* @st.cache_data: a call finds the memoized return value
cache_hit(c) == c.present

NoCache == [present |-> FALSE, table |-> EmptyFrame]

\* a call of the decorated load_data(): the memoized table, or the body run on
\* the file and, when it returns, its table memoized (an exception is not)
cached_load_data(c, n, f) ==
    IF cache_hit(c)
    THEN [raised |-> FALSE, table |-> c.table, cache |-> c, reads |-> n]
    ELSE LET r == load_data(f)
         IN [raised |-> r.raised,
             table |-> r.table,
             cache |-> IF r.raised THEN c ELSE [present |-> TRUE, table |-> r.table],
             reads |-> Min(n + 1, MaxReads)]

----------------------------------------------------------------------------
(* Sidebar filters: lines 66-92 *)

\* unique() without dropna(): NaN is among the options (a faulty variant)
age_group_options_with_nan(d) == {d.rows[i].age_group : i \in 1..Len(d.rows)}

\* df["age_group"].dropna().unique(): options and default of the first multiselect
age_group_options(d) == {d.rows[i].age_group : i \in 1..Len(d.rows)} \ {NaNLabel}

\* {g for sub in df["genre_names"] if isinstance(sub, list) for g in sub}, the
\* options and default of the second multiselect (sorted for display only)
all_genres(d) ==
    UNION {Range(d.rows[i].genre_names.items) :
               i \in {j \in 1..Len(d.rows) : IsList(d.rows[j].genre_names)}}

\* Series.isin(values) on one label: NaN matches only a NaN among the values
isin(x, values) == x \in values

\* all() in place of any() (a faulty variant)
genre_match_all(genres, selected) ==
    IF IsList(genres) THEN \A g \in selected : g \in Range(genres.items) ELSE FALSE

\* lambda genres: any(g in genres for g in selected_genres)
\*                if isinstance(genres, list) else False
genre_match(genres, selected) ==
    IF IsList(genres) THEN \E g \in selected : g \in Range(genres.items) ELSE FALSE

\* df[df["age_group"].isin(selected_age_groups)]: a boolean mask keeps the columns
age_filter(d, ages) ==
    Frame(d.columns,
          SelectSeqBy(d.rows, {i \in 1..Len(d.rows) : isin(d.rows[i].age_group, ages)}))

\* df_filt[df_filt["genre_names"].apply(...)]: apply on an empty Series gives an
\* empty Series of dtype object, which is no boolean mask, so the key is taken
\* as an (empty) list of column labels and the result has no columns
genre_filter(d, genres) ==
    IF Len(d.rows) = 0 THEN EmptyFrame
    ELSE Frame(d.columns,
               SelectSeqBy(d.rows,
                   {i \in 1..Len(d.rows) : genre_match(d.rows[i].genre_names, genres)}))

\* lines 85-92 on the frame d: KeyError (raised) when d lacks a column they read
apply_filters(d, ages, genres) ==
    IF ~({"age_group", "genre_names"} \subseteq d.columns)
    THEN [raised |-> TRUE, frame |-> EmptyFrame]
    ELSE [raised |-> FALSE, frame |-> genre_filter(age_filter(d, ages), genres)]

----------------------------------------------------------------------------
(* Overview metrics and views: lines 99-204 *)

AgeBins == 20
PopularityBins == 30
TopN == 10

RECURSIVE SumSeq(_)
SumSeq(s) == IF Len(s) = 0 THEN 0 ELSE s[1] + SumSeq(Tail(s))

\* the column c of the rows, as a sequence
Column(rows, c) == [i \in 1..Len(rows) |-> rows[i][c]]

\* the values of a numeric sequence that are not NaN
DropNaN(s) == SelectSeqBy(s, {i \in 1..Len(s) : s[i] # NaN})

\* round(x, 2) of the quotient s / n, in hundredths, half to even
Round2(s, n) ==
    LET q == (100 * s) \div n
        r == (100 * s) % n
    IN IF 2 * r < n THEN q
       ELSE IF 2 * r > n THEN q + 1
       ELSE q + (q % 2)

\* round(Series.mean(), 2) in hundredths: NaN for a Series without values
mean_metric(s) ==
    LET v == DropNaN(s)
    IN IF Len(v) = 0 THEN NaN ELSE Round2(SumSeq(v), Len(v))

SeqMin(s) == CHOOSE x \in Range(s) : \A y \in Range(s) : x <= y
SeqMax(s) == CHOOSE x \in Range(s) : \A y \in Range(s) : x >= y

\* ax.hist(values, bins=nb): counts of nb equal-width bins over [min, max]; the
\* maximum falls in the last bin; one distinct value spans [v - 0.5, v + 0.5];
\* no bin has a count when there are no values
hist(s, nb) ==
    IF Len(s) = 0 THEN [b \in 1..nb |-> 0]
    ELSE LET lo == SeqMin(s)
             hi == SeqMax(s)
             bin(x) == IF lo = hi THEN (nb \div 2) + 1
                       ELSE Min(((x - lo) * nb) \div (hi - lo), nb - 1) + 1
         IN [b \in 1..nb |-> Cardinality({i \in 1..Len(s) : bin(s[i]) = b})]

\* ax.scatter(vote_average, vote_count): one point per row
scatter(rows) == [i \in 1..Len(rows) |-> <<rows[i].vote_average, rows[i].vote_count>>]

numeric_cols == <<"popularity", "vote_average", "vote_count", "user_age">>

NullCorr == [null |-> TRUE, num |-> 0, dx |-> 0, dy |-> 0]

\* Pearson correlation of two columns over the rows where both have a value, as
\* the exact triple (n*Sxy - Sx*Sy, n*Sxx - Sx^2, n*Syy - Sy^2) of
\* r = num / sqrt(dx * dy); null when a variance is zero or no rows remain
pearson(rows, a, b) ==
    Let(SelectSeqBy(rows, {i \in 1..Len(rows) : rows[i][a] # NaN /\ rows[i][b] # NaN}),
        LAMBDA k :
    LET n == Len(k)
        x == Column(k, a)
        y == Column(k, b)
        sx == SumSeq(x)
        sy == SumSeq(y)
        num == n * SumSeq([i \in 1..n |-> x[i] * y[i]]) - sx * sy
        dx == n * SumSeq([i \in 1..n |-> x[i] * x[i]]) - sx * sx
        dy == n * SumSeq([i \in 1..n |-> y[i] * y[i]]) - sy * sy
    IN IF n = 0 \/ dx = 0 \/ dy = 0 THEN NullCorr
       ELSE [null |-> FALSE, num |-> num, dx |-> dx, dy |-> dy])

\* df_filt[numeric_cols].corr()
corr(rows) ==
    [a \in Range(numeric_cols) |-> [b \in Range(numeric_cols) |-> pearson(rows, a, b)]]

RECURSIVE explode(_)
\* df.explode("genre_names"): one row per element of a list, one row with NaN
\* for an empty list, and a cell that is no list kept (a str as it is)
explode(rows) ==
    IF Len(rows) = 0 THEN <<>>
    ELSE LET r == rows[1]
             g == r.genre_names
             one(x) == [genre |-> x, age_group |-> r.age_group, popularity |-> r.popularity]
         IN (IF IsList(g)
             THEN (IF Len(g.items) = 0 THEN <<one(NaNLabel)>>
                   ELSE [i \in 1..Len(g.items) |-> one(g.items[i])])
             ELSE IF g.kind = "nan" THEN <<one(NaNLabel)>>
             ELSE <<one(g.items[1])>>)
            \o explode(Tail(rows))

\* the distinct values of a sequence in the order of their first occurrence
FirstSeen(s) == SelectSeqBy(s, {i \in 1..Len(s) : \A j \in 1..(i - 1) : s[j] # s[i]})

Count(s, x) == Cardinality({i \in 1..Len(s) : s[i] = x})

\* how value_counts orders equal counts: by first occurrence, or not (the sort
\* it uses is not promised to be stable)
TieBreaks == {"first", "last"}

\* the distinct keys with their counts c, in descending order of count; among
\* equal counts the earlier key first (tb = "first") or the later one
SortByCount(keys, c, tb) ==
    LET n == Len(keys)
        before(j, i) == \/ c[j] > c[i]
                        \/ c[j] = c[i] /\ (IF tb = "first" THEN j < i ELSE j > i)
    IN [p \in 1..n |->
           LET i == CHOOSE i \in 1..n : Cardinality({j \in 1..n : before(j, i)}) = p - 1
           IN [genre |-> keys[i], count |-> c[i]]]

\* Series.value_counts(): NaN dropped, one entry per value, largest count first
value_counts(s, tb) ==
    Let(SelectSeqBy(s, {i \in 1..Len(s) : s[i] # NaNLabel}), LAMBDA v :
    Let(FirstSeen(v), LAMBDA keys :
    Let([i \in 1..Len(keys) |-> Count(v, keys[i])], LAMBDA c :
        SortByCount(keys, c, tb))))

\* value_counts() without .head(10) (a faulty variant)
head_all(s, n) == s

\* .head(n)
head(s, n) == SubSeq(s, 1, Min(n, Len(s)))

\* df_filt.explode("genre_names")["genre_names"].value_counts().head(10)
genre_counts(rows, tb) ==
    Let(explode(rows), LAMBDA e :
        head(value_counts([i \in 1..Len(e) |-> e[i].genre], tb), TopN))

\* the numbers of a set in ascending order
SortedSeq(S) ==
    [k \in 1..Cardinality(S) |-> CHOOSE x \in S : Cardinality({y \in S : y < x}) = k - 1]

\* df_filt["year"].value_counts().sort_index(): rows per year, NaN dropped
shows_per_year(rows) ==
    LET y == DropNaN(Column(rows, "year"))
        ys == SortedSeq(Range(y))
    IN [i \in 1..Len(ys) |-> [year |-> ys[i], count |-> Count(y, ys[i])]]

\* pd.pivot_table(df_exp, values="popularity", index="genre_names",
\* columns="age_group", aggfunc="mean"): the cells that hold a mean, as (sum, n)
pivot(rows) ==
    Let(explode(rows), LAMBDA e :
    LET ok == {i \in 1..Len(e) : e[i].genre # NaNLabel /\ e[i].age_group # NaNLabel
                                   /\ e[i].popularity # NaN}
        keys == {<<e[i].genre, e[i].age_group>> : i \in ok}
        cell(k) == {i \in ok : e[i].genre = k[1] /\ e[i].age_group = k[2]}
    IN {[genre |-> k[1], age_group |-> k[2],
         sum |-> SumSeq(SelectSeqBy([i \in 1..Len(e) |-> e[i].popularity], cell(k))),
         n |-> Cardinality(cell(k))] : k \in keys})

\* the matrix whose entries are all null
NullMatrix == [a \in Range(numeric_cols) |-> [b \in Range(numeric_cols) |-> NullCorr]]

\* the views in the order the script renders them
ViewOrder == <<"age_hist", "popularity_hist", "vote_scatter", "corr_heatmap",
               "top_genres", "shows_per_year", "genre_age_heatmap">>
Views == Range(ViewOrder)

\* what a run shows before any view is rendered
NoOut ==
    [metrics |-> {}, views |-> {},
     total_shows |-> 0, avg_vote |-> NaN, avg_popularity |-> NaN,
     age_hist |-> <<>>, popularity_hist |-> <<>>, vote_scatter |-> <<>>,
     corr |-> NullMatrix, genre_counts |-> <<>>, shows_per_year |-> <<>>, pivot |-> {}]

\* the statement at which lines 99-204 stop on the frame f:
\*   line 101, df_filt["vote_average"]: KeyError on a frame without columns;
\*   line 165, genre_counts.plot(kind="bar"): pandas raises on an empty Series;
\*   line 203, sns.heatmap(pivot): seaborn raises on an empty table
\* (gc is the genre_counts and pv the pivot the run computes from f)
views_error(f, gc, pv) ==
    IF "vote_average" \notin f.columns THEN "avg_vote_metric"
    ELSE IF Len(gc) = 0 THEN "top_genres_bar"
    ELSE IF pv = {} THEN "genre_age_heatmap"
    ELSE "none"

\* lines 99-204 on the frame f: what is on the page when the run ends
render(f, gc, pv) ==
    LET e == views_error(f, gc, pv)
        rows == f.rows
        all == [NoOut EXCEPT
                   !.metrics = {"total_shows", "avg_vote", "avg_popularity"},
                   !.views = Views,
                   !.total_shows = Len(rows),
                   !.avg_vote = mean_metric(Column(rows, "vote_average")),
                   !.avg_popularity = mean_metric(Column(rows, "popularity")),
                   !.age_hist = hist(Column(rows, "user_age"), AgeBins),
                   !.popularity_hist = hist(Column(rows, "popularity"), PopularityBins),
                   !.vote_scatter = scatter(rows),
                   !.corr = corr(rows),
                   !.genre_counts = gc,
                   !.shows_per_year = shows_per_year(rows),
                   !.pivot = pv]
    IN IF e = "avg_vote_metric"
       THEN [NoOut EXCEPT !.metrics = {"total_shows"}, !.total_shows = Len(rows)]
       ELSE IF e = "top_genres_bar"
       THEN [all EXCEPT !.views = {"age_hist", "popularity_hist", "vote_scatter",
                                   "corr_heatmap"},
                        !.shows_per_year = <<>>, !.pivot = {}]
       ELSE IF e = "genre_age_heatmap"
       THEN [all EXCEPT !.views = Views \ {"genre_age_heatmap"}]
       ELSE all

----------------------------------------------------------------------------
(* One run of the script: lines 58-204 *)

\* a run with the widget values (ages, genres), or with their defaults on the
\* first run of a session; tb is how value_counts orders ties in this run
Run(first, ages, genres) ==
    \E tb \in TieBreaks :
    \E ld \in {cached_load_data(cache, reads, file)} :
    \E a \in {IF first THEN age_group_options(ld.table) ELSE ages} :
    \E g \in {IF first THEN all_genres(ld.table) ELSE genres} :
    \E filt \in {apply_filters(ld.table, a, g).frame} :
    \E gc \in {genre_counts(filt.rows, tb)} :
    \E pv \in {pivot(filt.rows)} :
        /\ cache' = ld.cache
        /\ reads' = ld.reads
        /\ started' = TRUE
        /\ UNCHANGED file
        /\ IF ld.raised
           THEN \* line 58 raises: nothing below it runs
                /\ df' = EmptyFrame
                /\ selected_age_groups' = {}
                /\ selected_genres' = {}
                /\ df_filt' = EmptyFrame
                /\ out' = NoOut
                /\ err' = "load_data"
           ELSE /\ df' = ld.table
                /\ selected_age_groups' = a
                /\ selected_genres' = g
                /\ df_filt' = filt
                /\ out' = render(filt, gc, pv)
                /\ err' = views_error(filt, gc, pv)

\* the session opens the page: the script runs with the widgets' defaults
FirstRun ==
    /\ ~started
    /\ Run(TRUE, {}, {})

\* the sidebar exists once load_data has returned in a run of the session
WidgetsShown == started /\ err # "load_data"

\* the user changes the "Select Age Groups" multiselect; the script reruns
ChangeAgeGroups ==
    /\ WidgetsShown
    /\ \E ages \in SUBSET age_group_options(df) :
           /\ ages # selected_age_groups
           /\ Run(FALSE, ages, selected_genres)

\* the user changes the "Select Genres" multiselect; the script reruns
ChangeGenres ==
    /\ WidgetsShown
    /\ \E genres \in SUBSET all_genres(df) :
           /\ genres # selected_genres
           /\ Run(FALSE, selected_age_groups, genres)

\* a call of load_data() alone
CallLoadData ==
    /\ reads < MaxReads
    /\ \E r \in {cached_load_data(cache, reads, file)} :
          /\ cache' = r.cache
          /\ reads' = r.reads
          /\ df' = r.table
          /\ err' = IF r.raised THEN "load_data" ELSE "none"
    /\ UNCHANGED <<file, started, selected_age_groups, selected_genres, df_filt, out>>

\* lines 158-162 alone, on the filtered view
TopGenres ==
    /\ \E tb \in TieBreaks : out' = [out EXCEPT !.genre_counts = genre_counts(df_filt.rows, tb)]
    /\ UNCHANGED <<file, cache, reads, started, df, selected_age_groups, selected_genres,
                   df_filt, err>>

----------------------------------------------------------------------------
(* Backing files *)

\* the files of one to n rows drawn from the set rows, with (has) or without
\* an age_group column
Files(rows, n, has) ==
    {[has_age_group |-> h, rows |-> r] :
        h \in has, r \in UNION {[1..k -> rows] : k \in 1..n}}

Raw(g, c, date, age, group, pop, va, vc) ==
    [genre_names |-> g, origin_country |-> c, first_air_date |-> date,
     user_age |-> age, age_group |-> group,
     popularity |-> pop, vote_average |-> va, vote_count |-> vc]

GenreList(names) ==
    TextCell(<<LBR>>
             \o [i \in 1..(2 * Len(names) - 1) |->
                    IF i % 2 = 1 THEN STR(names[(i + 1) \div 2]) ELSE COMMA]
             \o <<RBR>>)

US == GenreList(<<"US">>)

\* genre_names fields of the rows of Spec: three list literals, an empty field
\* and text that is no literal
SpecGenreCells ==
    {GenreList(<<"Drama">>), GenreList(<<"Comedy">>), GenreList(<<"Drama", "Comedy">>),
     NaNCell, TextCell(<<NAME("Drama"), COMMA, NAME("Comedy")>>)}

\* user_age of the rows of Spec: below the bins, a Teen and an Adult
SpecAges == {12, 16, 30}

SpecRows ==
    {Raw(g, US,
         IF a = 16 THEN DateText(<<2005, 3, 1>>)
         ELSE IF a = 30 THEN DateText(<<1999, 11, 30>>) ELSE NaNDate,
         a, NaNLabel,
         IF a = 16 THEN 5 ELSE IF a = 30 THEN 10 ELSE 7,
         IF g.kind = "nan" THEN 6 ELSE 5 + Len(g.toks),
         100 * a + Len(g.toks)) : g \in SpecGenreCells, a \in SpecAges}

\* list fields of the rows of SpecLoad
LoadGenreCells ==
    {GenreList(<<"Drama">>), GenreList(<<"Drama", "Comedy">>), NaNCell,
     TextCell(<<STR("Drama")>>), TextCell(<<NAME("Drama")>>)}

LoadCountryCells == {US, NaNCell, TextCell(<<LBR, STR("US")>>)}

LoadDates == {DateText(<<2005, 3, 1>>), DateText(<<1999, 13, 1>>), NaNDate}

LoadRows ==
    {Raw(g, c, d, 30, NaNLabel, 10, 7, 100) :
        g \in LoadGenreCells, c \in LoadCountryCells, d \in LoadDates}

\* rows of SpecCut: every user_age of MinAge..MaxAge
CutRows ==
    {Raw(GenreList(<<"Drama">>), US, DateText(<<2005, 3, 1>>), a, "Adult (25-34)", 10, 7, 100) :
        a \in MinAge..MaxAge}

GenreNames == <<"Action & Adventure", "Animation", "Comedy", "Crime", "Documentary",
                "Drama", "Family", "Kids", "Mystery", "News", "Reality",
                "Sci-Fi & Fantasy", "Soap", "Talk", "War & Politics", "Western">>

\* rows of SpecTop: the genre lists are the prefixes and the suffixes of the
\* first NumGenres genre names
TopRow(lo, hi) ==
    Raw(GenreList(SubSeq(GenreNames, lo, hi)), US, DateText(<<2005, 3, 1>>),
        30, NaNLabel, 10, 7, 100)

TopRows ==
    {TopRow(1, hi) : hi \in 1..NumGenres} \cup {TopRow(lo, NumGenres) : lo \in 1..NumGenres}

----------------------------------------------------------------------------
(* Specifications *)

\* before the first run of the session
Fresh ==
    /\ cache = NoCache
    /\ reads = 0
    /\ started = FALSE
    /\ df = EmptyFrame
    /\ selected_age_groups = {}
    /\ selected_genres = {}
    /\ df_filt = EmptyFrame
    /\ out = NoOut
    /\ err = "none"

\* the dashboard: sessions of runs of the script over a file
Init ==
    /\ file \in Files(SpecRows, MaxRows, {FALSE})
    /\ Fresh

Next == FirstRun \/ ChangeAgeGroups \/ ChangeGenres

Spec == Init /\ [][Next]_vars

\* load_data over files with good and bad list and date fields
InitLoad ==
    /\ file \in Files(LoadRows, MaxFileRows, {FALSE})
    /\ Fresh

NextLoad == CallLoadData

SpecLoad == InitLoad /\ [][NextLoad]_vars

\* load_data over files of every user_age, with and without an age_group column
InitCut ==
    /\ file \in Files(CutRows, MaxCutRows, BOOLEAN)
    /\ Fresh

NextCut == CallLoadData

SpecCut == InitCut /\ [][NextCut]_vars

\* the top-genres view over filtered views of more than TopN genres: the state
\* of a first run when it reaches line 158
InitTop ==
    /\ file \in Files(TopRows, MaxTopRows, {FALSE})
    /\ \E ld \in {cached_load_data(NoCache, 0, file)} :
          /\ cache = ld.cache
          /\ reads = ld.reads
          /\ df = ld.table
          /\ selected_age_groups = age_group_options(ld.table)
          /\ selected_genres = all_genres(ld.table)
          /\ df_filt = apply_filters(ld.table, age_group_options(ld.table),
                                     all_genres(ld.table)).frame
    /\ started = TRUE
    /\ out = NoOut
    /\ err = "none"

NextTop == TopGenres

SpecTop == InitTop /\ [][NextTop]_vars

----------------------------------------------------------------------------
(* Properties *)

\* the rows of d whose age_group is selected
AgeRows(d, ages) ==
    SelectSeqBy(d.rows, {i \in 1..Len(d.rows) : d.rows[i].age_group \in ages})

\* C1: when no genre is selected the genre predicate is not applied: the filtered
\* view holds every row whose age_group is among the selected age groups
C1_EmptyGenresKeepAgeRows ==
    (WidgetsShown /\ selected_genres = {})
        => df_filt.rows = AgeRows(df, selected_age_groups)

\* C2: with a non-empty genre selection a row is in the filtered view iff its
\* age_group is selected and its genre_names is a list sharing a genre with the
\* selection; a row whose genre_names is no list is left out and the filter
\* does not raise
C2_GenreFilterIff ==
    (WidgetsShown /\ selected_genres # {})
        => /\ df_filt.rows =
                  SelectSeqBy(df.rows,
                      {i \in 1..Len(df.rows) :
                          /\ df.rows[i].age_group \in selected_age_groups
                          /\ df.rows[i].genre_names.kind = "list"
                          /\ Range(df.rows[i].genre_names.items) \cap selected_genres # {}})
           /\ ~apply_filters(df, selected_age_groups, selected_genres).raised

\* a run with a genre selection that keeps a row, leaves out a row of a selected
\* age group whose genre_names is no list, and one whose list shares no genre
C2_Witness ==
    /\ WidgetsShown
    /\ selected_genres # {}
    /\ Len(df_filt.rows) >= 1
    /\ \E i \in 1..Len(df.rows) :
           /\ df.rows[i].age_group \in selected_age_groups
           /\ df.rows[i].genre_names.kind # "list"
    /\ selected_genres # all_genres(df)

\* C3: a run whose filters yield no row shows the three metrics and the seven
\* views and stops on no error
C3_EmptyResultRendersAll ==
    (WidgetsShown /\ Len(df_filt.rows) = 0)
        => /\ err = "none"
           /\ out.metrics = {"total_shows", "avg_vote", "avg_popularity"}
           /\ out.views = Views

\* C4: load_data fails on no bad row and returns as many rows as the file has
C4_LoadKeepsEveryRow ==
    reads > 0 => (err = "none" /\ Len(df.rows) = Len(file.rows))

Loaded == reads > 0 /\ err = "none"

ListColumns == {"genre_names", "origin_country"}

\* C5 as stated: in every table load_data returns, every genre_names and
\* origin_country is a sequence of strings
C5_AlwaysSequences ==
    Loaded => \A i \in 1..Len(df.rows) : \A c \in ListColumns : df.rows[i][c].kind = "list"

\* the text [ 's' , 's' , ... ] of a list of string literals
IsListLiteral(toks) ==
    /\ Len(toks) >= 2
    /\ Len(toks) % 2 = 0 => Len(toks) = 2
    /\ toks[1].t = "[" /\ toks[Len(toks)].t = "]"
    /\ \A i \in 2..(Len(toks) - 1) : toks[i].t = IF i % 2 = 0 THEN "str" ELSE ","

\* the strings of such a text
LiteralStrings(toks) == [k \in 1..((Len(toks) - 1) \div 2) |-> toks[2 * k].v]

\* C5 (amended): in every table load_data returns, no text cell of genre_names
\* or origin_country stays raw text; the text of a list of string literals is
\* decoded to that sequence of strings; a cell that is no text is unchanged
C5_DecodedCells ==
    Loaded =>
        /\ Len(df.rows) = Len(file.rows)
        /\ \A i \in 1..Len(df.rows) : \A c \in ListColumns :
               LET raw == file.rows[i][c]
                   v == df.rows[i][c]
               IN /\ v.kind # "text"
                  /\ (raw.kind = "text" /\ IsListLiteral(raw.toks))
                         => (v.kind = "list" /\ v.items = LiteralStrings(raw.toks))
                  /\ raw.kind # "text" => v = raw

\* a returned table with a decoded list of two strings and an empty field kept
C5_Witness ==
    /\ Loaded
    /\ \E i \in 1..Len(df.rows) : df.rows[i].genre_names = ListCell(<<"Drama", "Comedy">>)
    /\ \E i \in 1..Len(df.rows) : df.rows[i].origin_country = NaNCell

\* C6: no row with a null age_group is in the filtered view, and null is never
\* among the selected age groups
C6_NoNullAgeGroupInView ==
    /\ NaNLabel \notin selected_age_groups
    /\ \A i \in 1..Len(df_filt.rows) : df_filt.rows[i].age_group # NaNLabel

\* after a change of the genre selection, a table holds a row with a null
\* age_group whose genres are selected, and the view holds another row
C6_Witness ==
    /\ WidgetsShown
    /\ selected_genres # all_genres(df)
    /\ Len(df_filt.rows) >= 1
    /\ \E i \in 1..Len(df.rows) :
           /\ df.rows[i].age_group = NaNLabel
           /\ df.rows[i].genre_names.kind = "list"
           /\ Range(df.rows[i].genre_names.items) \cap selected_genres # {}

\* the label of the claim for an age
AgeGroupOf(a) ==
    IF a \in 13..17 THEN "Teen (13-17)"
    ELSE IF a \in 18..24 THEN "Young Adult (18-24)"
    ELSE IF a \in 25..34 THEN "Adult (25-34)"
    ELSE IF a \in 35..44 THEN "Mid Adult (35-44)"
    ELSE IF a \in 45..54 THEN "Older Adult (45-54)"
    ELSE IF a \in 55..70 THEN "Senior (55-70)"
    ELSE NaNLabel

\* C7: without an age_group column, load_data gives every age of 13..70 the
\* label of its bin (12,17], (17,24], (24,34], (34,44], (44,54], (54,70], and
\* every other age null
C7_AgeBins ==
    (Loaded /\ ~file.has_age_group)
        => \A i \in 1..Len(df.rows) :
               df.rows[i].age_group = AgeGroupOf(file.rows[i].user_age)

\* a table derived from a file without the column, with the boundary age 17
C7_Witness ==
    /\ Loaded
    /\ ~file.has_age_group
    /\ \E i \in 1..Len(df.rows) :
           file.rows[i].user_age = 17 /\ df.rows[i].age_group = "Teen (13-17)"

\* C8: the file is read at most once, the memoized table is the table built
\* from the file, and every run that gets past load_data works on that table
C8_LoadedOnceNeverMutated ==
    /\ reads <= 1
    /\ cache.present => (reads = 1 /\ cache.table = load_data(file).table)
    /\ WidgetsShown => (cache.present /\ df = cache.table)

\* a rerun after a change of a selection, over a table with rows, some of them
\* filtered out
C8_Witness ==
    /\ WidgetsShown
    /\ reads = 1
    /\ selected_genres # all_genres(df)
    /\ Len(df_filt.rows) >= 1
    /\ Len(df_filt.rows) < Len(df.rows)

\* C9: filtering the filtered view again with the same selections returns the
\* same rows
C9_FilterIdempotent ==
    WidgetsShown =>
        /\ ~apply_filters(df_filt, selected_age_groups, selected_genres).raised
        /\ apply_filters(df_filt, selected_age_groups, selected_genres).frame.rows
               = df_filt.rows

\* the (show, genre) pairs of the filtered view
GenrePairs ==
    UNION {{<<i, k>> : k \in 1..Len(df_filt.rows[i].genre_names.items)} :
               i \in 1..Len(df_filt.rows)}

PairGenre(p) == df_filt.rows[p[1]].genre_names.items[p[2]]

PairCount(g) == Cardinality({p \in GenrePairs : PairGenre(p) = g})

\* C10: genre_counts has at most 10 entries, in descending order of count; each
\* count is the number of (show, genre) pairs of that genre; no genre left out
\* has a larger count than a listed one; no genre without a pair is listed
C10_TopGenres ==
    LET gc == out.genre_counts
    IN gc # <<>> =>
        /\ Len(gc) <= 10
        /\ \A i \in 1..(Len(gc) - 1) : gc[i].count >= gc[i + 1].count
        /\ \A i \in 1..Len(gc) : gc[i].count = PairCount(gc[i].genre) /\ gc[i].count > 0
        /\ \A i, j \in 1..Len(gc) : i # j => gc[i].genre # gc[j].genre
        /\ \A p \in GenrePairs :
               (\A i \in 1..Len(gc) : gc[i].genre # PairGenre(p))
                   => \A i \in 1..Len(gc) : PairCount(PairGenre(p)) <= gc[i].count

\* a view of more than 10 genres: ten are listed, with unequal counts, and a
\* genre is left out
C10_Witness ==
    /\ Len(out.genre_counts) = 10
    /\ out.genre_counts[1].count > out.genre_counts[10].count
    /\ \E p \in GenrePairs :
           \A i \in 1..10 : out.genre_counts[i].genre # PairGenre(p)

====
